---------------------------- MODULE Spec2Model ----------------------------
(***************************************************************************)
(* Model of binance-mcp (src/main.py): the BinanceAPI request helper and   *)
(* the tool functions built on it.                                         *)
(*                                                                         *)
(* An invocation runs without interruption between two awaits, so an       *)
(* action is the code from one suspension point (the start of a call, or   *)
(* the arrival of a response) to the next (a request in flight, or the     *)
(* end of the call).                                                       *)
(*                                                                         *)
(* Python values are tagged tuples: None, I(n) for an int, S(s) for a str. *)
(* A dict is the sequence of its <<key, value>> items in insertion order.  *)
(* A text is the sequence of its lines, a line a tuple whose first item is *)
(* the marker the line starts with (ErrMark stands for the cross mark).    *)
(***************************************************************************)
EXTENDS Integers, Sequences, FiniteSets, TLC

VARIABLES
    BINANCE_API_KEY,    \* main.py:19
    BINANCE_API_SECRET, \* main.py:20
    BASE_URL,           \* main.py:24-27
    api_client,         \* main.py:75
    pc,                 \* per invocation: "idle", "await" or "done"
    call,               \* per invocation: the tool called and its arguments
    stage,              \* per invocation: number of the request awaited
    dict,               \* per invocation: the params mapping handed to _request
    sent,               \* per invocation: the HTTP requests sent, in order
    got,                \* per invocation: the responses received, in order
    markdown,           \* per invocation: the text accumulated so far
    result              \* per invocation: what the call returned or raised

vars == <<BINANCE_API_KEY, BINANCE_API_SECRET, BASE_URL, api_client,
          pc, call, stage, dict, sent, got, markdown, result>>

config == <<BINANCE_API_KEY, BINANCE_API_SECRET, BASE_URL, api_client>>

-----------------------------------------------------------------------------
(* Bounds and program constants *)

\* clock readings datetime.now() can give are 1..MaxTimestamp
MaxTimestamp == 2

\* the ticker lists the model answers with hold 0..MaxTickers symbols
MaxTickers == 22

\* the income lists the model answers with hold 0..MaxIncomes records
MaxIncomes == 3

\* for item in data[:20], if len(data) > 20
TickerRows == 20

\* min(limit, 1000)
LimitCap == 1000

\* if count > 20: count = 20
RowsCap == 20

\* if page < 1: page = 1
MinPage == 1

Procs == {"p1", "p2"}

\* the invocations the sequential host of Spec uses
SeqProcs == {"p1"}

-----------------------------------------------------------------------------
(* Python values *)

None == <<"None">>

I(n) == <<"int", n>>

S(s) == <<"str", s>>

IsInt(v) == v[1] = "int"

IsStr(v) == v[1] = "str"

\* truth value of an argument: None, "" and 0 are false
Truthy(v) ==
    CASE v = None -> FALSE
      [] IsStr(v) -> v[2] # ""
      [] IsInt(v) -> v[2] # 0
      [] OTHER    -> TRUE

\* the strings the model passes around, and str.upper() on them
UpperTable ==
    [s \in {"", "btcusdt", "BTCUSDT", "btc", "BTC", "eth", "ETH",
            "funding_fee", "FUNDING_FEE", "old", "OLD",
            "GET", "get", "POST", "Post", "PUT", "delete", "DELETE"} |->
        CASE s = "btcusdt"     -> "BTCUSDT"
          [] s = "btc"         -> "BTC"
          [] s = "eth"         -> "ETH"
          [] s = "funding_fee" -> "FUNDING_FEE"
          [] s = "old"         -> "OLD"
          [] s = "get"         -> "GET"
          [] s = "Post"        -> "POST"
          [] s = "delete"      -> "DELETE"
          [] OTHER             -> s]

upper(s) == UpperTable[s]

\* str(v) as urlencode applies it to a value
str(v) == IF IsInt(v) THEN ToString(v[2]) ELSE v[2]

-----------------------------------------------------------------------------
(* dict operations *)

Keys(d) == {d[i][1] : i \in 1..Len(d)}

HasKey(d, k) == k \in Keys(d)

IndexOf(d, k) == CHOOSE i \in 1..Len(d) : d[i][1] = k

Get(d, k) == d[IndexOf(d, k)][2]

\* number of items of d with key k
Count(d, k) == Cardinality({i \in 1..Len(d) : d[i][1] = k})

\* d[k] = v  with a stale entry left in place next to the new one
DictSetAppend(d, k, v) == Append(d, <<k, v>>)

\* d[k] = v : an existing key keeps its position, a new key goes last
DictSet(d, k, v) ==
    IF HasKey(d, k)
    THEN [d EXCEPT ![IndexOf(d, k)] = <<k, v>>]
    ELSE Append(d, <<k, v>>)

\* urlencode(params): the items in insertion order, each value through str()
urlencode(d) == [i \in 1..Len(d) |-> <<d[i][1], str(d[i][2])>>]

-----------------------------------------------------------------------------
(* class BinanceAPI *)

BinanceAPI(api_key, api_secret, base_url) ==
    [api_key |-> api_key, api_secret |-> api_secret, base_url |-> base_url]

\* hmac.new(secret, query_string, sha256).hexdigest(): the digest stands for
\* the pair it was computed from
generate_signature(self, query_string) ==
    <<"hmac_sha256", self.api_secret, query_string>>

\* headers sent with an empty-valued key header when no key is set
HeadersEmptyValued(self) == <<<<"X-MBX-APIKEY", self.api_key>>>>

\* headers = {"X-MBX-APIKEY": self.api_key} if self.api_key else {}
Headers(self) ==
    IF self.api_key # "" THEN <<<<"X-MBX-APIKEY", self.api_key>>>> ELSE <<>>

\* signing that digests the string built before the timestamp was added
SignParamsStale(self, params, now) ==
    DictSet(DictSet(params, "timestamp", I(now)), "signature",
            generate_signature(self, urlencode(params)))

\* the body of "if signed:"
SignParams(self, params, now) ==
    LET stamped      == DictSet(params, "timestamp", I(now))
        query_string == urlencode(stamped)
    IN  DictSet(stamped, "signature", generate_signature(self, query_string))

\* the params mapping as _request leaves it before sending
RequestParams(self, params, signed, now) ==
    IF signed THEN SignParams(self, params, now) ELSE params

\* every method is sent
MethodSupportedAny(method) == TRUE

\* method.upper() == "GET" or method.upper() == "POST"
MethodSupported(method) == upper(method) \in {"GET", "POST"}

\* the HTTP request client.get / client.post sends
HttpRequest(method, url, params, headers) ==
    [method |-> method, url |-> url, params |-> params, headers |-> headers]

\* _request sending its request a second time
RequestSendTwice(self, method, endpoint, params, signed, now) ==
    LET ps  == RequestParams(self, params, signed, now)
        req == HttpRequest(upper(method), <<self.base_url, endpoint>>, ps,
                           Headers(self))
    IN  IF MethodSupported(method)
        THEN [params |-> ps, raised |-> "", req |-> <<req, req>>]
        ELSE [params |-> ps, raised |-> "ValueError", req |-> <<>>]

\* _request up to its await: the params mapping as left behind, and either
\* the request sent or the exception raised
RequestSend(self, method, endpoint, params, signed, now) ==
    LET ps == RequestParams(self, params, signed, now)
    IN  IF MethodSupported(method)
        THEN [params |-> ps, raised |-> "",
              req |-> <<HttpRequest(upper(method), <<self.base_url, endpoint>>,
                                    ps, Headers(self))>>]
        ELSE [params |-> ps, raised |-> "ValueError", req |-> <<>>]

-----------------------------------------------------------------------------
(* HTTP responses *)

\* what can come back for a request: a transport failure, a non-2xx status,
\* a body that is no JSON, or JSON data; "missing" names the one field the
\* data lacks ("" when it lacks none) and "code" is the announcement feed's
\* result code
Statuses == {"ok", "network", "timeout", "http", "badjson"}

Response(status, missing, code) ==
    [status |-> status, missing |-> missing, code |-> code,
     shape |-> "object", items |-> <<>>]

\* JSON data that is a list of items
ListResponse(items) ==
    [status |-> "ok", missing |-> "", code |-> "000000",
     shape |-> "list", items |-> items]

\* await client.get(...); response.raise_for_status(); response.json()
HttpReceive(resp) ==
    CASE resp.status = "network" -> [raised |-> "ConnectError"]
      [] resp.status = "timeout" -> [raised |-> "ReadTimeout"]
      [] resp.status = "http"    -> [raised |-> "HTTPStatusError"]
      [] resp.status = "badjson" -> [raised |-> "JSONDecodeError"]
      [] OTHER                   -> [raised |-> "", data |-> resp]

-----------------------------------------------------------------------------
(* Texts *)

ErrMark == "[X]"

NotConfigured ==
    <<ErrMark, "API keys not configured. Please set BINANCE_API_KEY and BINANCE_API_SECRET in .env file">>

\* a text starts with the error marker
IsErrorText(text) == Len(text) > 0 /\ text[1][1] = ErrMark

\* a text of exactly one line, which starts with the error marker
IsErrorLine(text) == Len(text) = 1 /\ text[1][1] = ErrMark

Returned(text) == [kind |-> "return", value |-> text]

Raised(exc) == [kind |-> "raise", exc |-> exc]

NoResult == [kind |-> "none"]

-----------------------------------------------------------------------------
(* The tools *)

PublicTools ==
    {"fetch_latest_announcements", "get_ticker_price", "get_24hr_ticker"}

\* the tools that pass signed=True to _request
SignedTools ==
    {"get_account_info", "get_spot_open_orders", "get_spot_trade_history",
     "get_futures_account_balance", "get_futures_open_orders",
     "get_futures_income_history", "get_margin_account",
     "get_isolated_margin_account", "get_asset_distribution",
     "get_deposit_address", "get_deposit_history", "get_withdraw_history"}

\* the guard left out of get_deposit_history
CredentialCheckedButOne == SignedTools \ {"get_deposit_history"}

\* the tools that start with "if not BINANCE_API_KEY or not BINANCE_API_SECRET"
CredentialChecked ==
    {"get_account_info", "get_spot_open_orders", "get_spot_trade_history",
     "get_futures_account_balance", "get_futures_open_orders",
     "get_futures_income_history", "get_margin_account",
     "get_isolated_margin_account", "get_asset_distribution",
     "get_deposit_address", "get_deposit_history", "get_withdraw_history"}

Tools == PublicTools \cup SignedTools

\* the guard with "and" for "or"
CredentialsMissingBoth(key, secret) == key = "" /\ secret = ""

\* not BINANCE_API_KEY or not BINANCE_API_SECRET
CredentialsMissing(key, secret) == key = "" \/ secret = ""

Endpoint(tool) ==
    CASE tool = "get_ticker_price"            -> "/api/v3/ticker/price"
      [] tool = "get_24hr_ticker"             -> "/api/v3/ticker/24hr"
      [] tool = "get_account_info"            -> "/api/v3/account"
      [] tool = "get_spot_open_orders"        -> "/api/v3/openOrders"
      [] tool = "get_spot_trade_history"      -> "/api/v3/myTrades"
      [] tool = "get_futures_account_balance" -> "/fapi/v2/account"
      [] tool = "get_futures_open_orders"     -> "/fapi/v1/openOrders"
      [] tool = "get_futures_income_history"  -> "/fapi/v1/income"
      [] tool = "get_margin_account"          -> "/sapi/v1/margin/account"
      [] tool = "get_isolated_margin_account" -> "/sapi/v1/margin/isolated/account"
      [] tool = "get_deposit_address"         -> "/sapi/v1/capital/deposit/address"
      [] tool = "get_deposit_history"         -> "/sapi/v1/capital/deposit/hisrec"
      [] tool = "get_withdraw_history"        -> "/sapi/v1/capital/withdraw/history"

\* the text of the tool's "except Exception as e" line
FailText(tool) ==
    CASE tool = "fetch_latest_announcements"  -> "Failed to fetch announcements"
      [] tool = "get_ticker_price"            -> "Failed to fetch ticker price"
      [] tool = "get_24hr_ticker"             -> "Failed to fetch 24hr ticker"
      [] tool = "get_account_info"            -> "Failed to fetch account info"
      [] tool = "get_spot_open_orders"        -> "Failed to fetch open orders"
      [] tool = "get_spot_trade_history"      -> "Failed to fetch trade history"
      [] tool = "get_futures_account_balance" -> "Failed to fetch futures account"
      [] tool = "get_futures_open_orders"     -> "Failed to fetch futures open orders"
      [] tool = "get_futures_income_history"  -> "Failed to fetch income history"
      [] tool = "get_margin_account"          -> "Failed to fetch margin account"
      [] tool = "get_isolated_margin_account" -> "Failed to fetch isolated margin account"
      [] tool = "get_deposit_address"         -> "Failed to fetch deposit address"
      [] tool = "get_deposit_history"         -> "Failed to fetch deposit history"
      [] tool = "get_withdraw_history"        -> "Failed to fetch withdrawal history"

\* the heading of the text the tool renders from a response
Title(tool) ==
    CASE tool = "fetch_latest_announcements"  -> "Binance Announcements"
      [] tool = "get_ticker_price"            -> "Price"
      [] tool = "get_24hr_ticker"             -> "24hr Statistics"
      [] tool = "get_account_info"            -> "Spot Account Information"
      [] tool = "get_spot_open_orders"        -> "Open Spot Orders"
      [] tool = "get_spot_trade_history"      -> "Trade History"
      [] tool = "get_futures_account_balance" -> "USDT-M Futures Account"
      [] tool = "get_futures_open_orders"     -> "Open Futures Orders"
      [] tool = "get_futures_income_history"  -> "Futures Income History"
      [] tool = "get_margin_account"          -> "Cross Margin Account"
      [] tool = "get_isolated_margin_account" -> "Isolated Margin Accounts"
      [] tool = "get_deposit_address"         -> "Deposit Address"
      [] tool = "get_deposit_history"         -> "Deposit History"
      [] tool = "get_withdraw_history"        -> "Withdrawal History"

\* the fields the tool reads with data[...]: a KeyError when one is missing
RequiredFields(tool) ==
    CASE tool = "fetch_latest_announcements" -> {"code", "data"}
      [] tool = "get_ticker_price" -> {"symbol", "price"}
      [] tool = "get_24hr_ticker" ->
            {"symbol", "priceChange", "priceChangePercent", "highPrice",
             "lowPrice", "lastPrice", "volume", "quoteVolume", "count"}
      [] tool = "get_account_info" ->
            {"makerCommission", "takerCommission", "canTrade", "canWithdraw",
             "canDeposit", "balances"}
      [] tool = "get_spot_open_orders" ->
            {"orderId", "symbol", "side", "type", "price", "origQty",
             "executedQty", "status", "time"}
      [] tool = "get_spot_trade_history" ->
            {"time", "isBuyer", "price", "qty", "commission", "commissionAsset"}
      [] tool = "get_futures_account_balance" ->
            {"totalWalletBalance", "totalUnrealizedProfit", "totalMarginBalance",
             "availableBalance", "maxWithdrawAmount", "assets", "positions"}
      [] tool = "get_futures_open_orders" ->
            {"orderId", "symbol", "side", "type", "price", "origQty",
             "executedQty", "status", "reduceOnly", "time"}
      [] tool = "get_futures_income_history" ->
            {"time", "income", "asset", "symbol", "incomeType"}
      [] tool = "get_margin_account" ->
            {"marginLevel", "totalAssetOfBtc", "totalLiabilityOfBtc",
             "totalNetAssetOfBtc", "tradeEnabled", "transferEnabled",
             "borrowEnabled", "userAssets"}
      [] tool = "get_isolated_margin_account" ->
            {"symbol", "marginLevel", "marginRatio", "liquidatePrice",
             "tradeEnabled", "baseAsset", "quoteAsset"}
      [] tool = "get_deposit_address" -> {"address"}
      [] tool = "get_deposit_history" -> {"insertTime", "status", "coin", "amount"}
      [] tool = "get_withdraw_history" -> {"applyTime", "status", "coin", "amount"}

\* the fields the tool reads with data.get(..., default): no error when missing
OptionalFields(tool) ==
    CASE tool = "get_isolated_margin_account" -> {"assets", "totalNetAssetOfBtc"}
      [] tool = "get_deposit_address"         -> {"network", "tag"}
      [] tool = "get_deposit_history"         -> {"network"}
      [] tool = "get_withdraw_history"        -> {"network", "transactionFee"}
      [] OTHER                                -> {}

\* the all-symbols answers of the ticker endpoint: n items, an item the pair
\* of its symbol and price, here in descending order of symbol
TickerLists ==
    {[k \in 1..n |-> <<"sym", n + 1 - k>>] : n \in 0..MaxTickers}

IncomeAssets == {"USDT", "BNB"}

IncomeAmounts == {-1, 2}

\* an income record: its asset and its income
IncomeRecords == {<<a, x>> : a \in IncomeAssets, x \in IncomeAmounts}

\* the answers of the income endpoint: up to MaxIncomes records
IncomeLists == UNION {[1..n -> IncomeRecords] : n \in 0..MaxIncomes}

\* the responses the model lets a tool's request meet
Responses(tool) ==
    {Response(s, "", "000000") :
        s \in IF tool = "get_futures_income_history" THEN Statuses \ {"ok"}
              ELSE Statuses}
    \cup {Response("ok", f, "000000") :
            f \in RequiredFields(tool) \cup OptionalFields(tool)}
    \cup (IF tool = "fetch_latest_announcements"
          THEN {Response("ok", "", "100001")} ELSE {})
    \cup (IF tool = "get_ticker_price"
          THEN {ListResponse(items) : items \in TickerLists} ELSE {})
    \cup (IF tool = "get_futures_income_history"
          THEN {ListResponse(items) : items \in IncomeLists} ELSE {})

\* an except clause whose line lacks the marker
ErrorTextUnmarked(tool, exc) == <<<<"", FailText(tool), exc>>>>

\* the except clause of a tool: one line, whatever was built before
ErrorText(tool, exc) == <<<<ErrMark, FailText(tool), exc>>>>

\* data[:n]
Slice(items, n) == SubSeq(items, 1, IF Len(items) < n THEN Len(items) ELSE n)

\* a ticker table cut one row late and footed one symbol early
RenderTickerListLate(data) ==
    <<<<"#", "Price Tickers (Top 20)">>,
      <<"| Symbol | Price |">>,
      <<"|--------|-------|">>>>
    \o [k \in 1..Len(Slice(data, TickerRows + 1)) |-> <<"|", data[k]>>]
    \o (IF Len(data) >= TickerRows
        THEN <<<<"_", "Showing 20 of", Len(data)>>>> ELSE <<>>)

\* get_ticker_price on a list: the table of the first rows and the footer
RenderTickerList(data) ==
    <<<<"#", "Price Tickers (Top 20)">>,
      <<"| Symbol | Price |">>,
      <<"|--------|-------|">>>>
    \o [k \in 1..Len(Slice(data, TickerRows)) |-> <<"|", data[k]>>]
    \o (IF Len(data) > TickerRows
        THEN <<<<"_", "Showing 20 of", Len(data)>>>> ELSE <<>>)

\* get_ticker_price on a single object
RenderTicker == <<<<"#", "Price">>, <<"**", "Current Price">>>>

\* totals that keep the last income of an asset
AddIncomeLast(total_income, income) ==
    DictSet(total_income, income[1], income[2])

\* if asset not in total_income: total_income[asset] = 0
\* total_income[asset] += income_amount
AddIncome(total_income, income) ==
    LET asset  == income[1]
        zeroed == IF HasKey(total_income, asset) THEN total_income
                  ELSE DictSet(total_income, asset, 0)
    IN  DictSet(zeroed, asset, Get(zeroed, asset) + income[2])

\* total_income after the loop over the first n records
RECURSIVE IncomeTotals(_, _)
IncomeTotals(incomes, n) ==
    IF n = 0 THEN <<>>
    ELSE AddIncome(IncomeTotals(incomes, n - 1), incomes[n])

\* get_futures_income_history on its list of records
RenderIncome(incomes) ==
    IF incomes = <<>> THEN <<<<"#", "No Income History Found">>>>
    ELSE LET total_income == IncomeTotals(incomes, Len(incomes))
         IN  <<<<"#", "Futures Income History">>,
               <<"**", "Total Records", Len(incomes)>>,
               <<"| Time | Symbol | Type | Income | Asset |">>,
               <<"|------|--------|------|--------|-------|">>>>
             \o [k \in 1..Len(incomes) |-> <<"|", incomes[k]>>]
             \o <<<<"##", "Total Income by Asset">>>>
             \o [k \in 1..Len(total_income) |->
                    <<"-", total_income[k][1], total_income[k][2]>>]

\* the tool's rendering of JSON data: its text, or the exception of the
\* first data[...] that finds no field
Render(tool, data) ==
    IF data.missing \in RequiredFields(tool)
    THEN [raised |-> "KeyError"]
    ELSE [raised |-> "",
          text |->
            CASE tool = "get_isolated_margin_account" /\ data.missing = "assets" ->
                    <<<<"#", "No Isolated Margin Accounts Found">>>>
              [] tool = "get_ticker_price" /\ data.shape = "list" ->
                    RenderTickerList(data.items)
              [] tool = "get_ticker_price" -> RenderTicker
              [] tool = "get_futures_income_history" /\ data.shape = "list" ->
                    RenderIncome(data.items)
              [] OTHER -> <<<<"#", Title(tool)>>, <<"data", data.missing>>>>]

-----------------------------------------------------------------------------
(* Arguments and the params each tool builds *)

Timestamps == 1..MaxTimestamp

SymbolArgs == {None, S(""), S("btcusdt")}

CoinArgs == {None, S("btc")}

NetworkArgs == {None, S("eth")}

IncomeTypeArgs == {None, S("funding_fee")}

StatusArgs == {None, I(0), I(6)}

LimitArgs == {None, I(-1), I(0), I(10), I(LimitCap), I(LimitCap + 1)}

CountArgs == {None, I(-1), I(0), I(RowsCap), I(RowsCap + 1)}

PageArgs == {None, I(MinPage - 2), I(MinPage - 1), I(MinPage), I(MinPage + 1)}

\* a minimum that also lifts values below one to one
pyminFloored(a, b) == IF a < 1 THEN 1 ELSE IF a <= b THEN a ELSE b

\* min(a, b) of two ints
pymin(a, b) == IF a <= b THEN a ELSE b

Built(params) == [raised |-> "", params |-> params]

Failed(exc) == [raised |-> exc]

\* {key: symbol.upper()} if symbol else {}
SymbolOrEmpty(key, symbol) ==
    IF Truthy(symbol) THEN <<<<key, S(upper(symbol[2]))>>>> ELSE <<>>

\* params[key] = value.upper() when value is truthy
WithUpper(params, key, value) ==
    IF Truthy(value) THEN DictSet(params, key, S(upper(value[2]))) ELSE params

\* params["status"] = status when status is not None
WithStatus(params, status) ==
    IF status # None THEN DictSet(params, "status", status) ELSE params

\* the params a tool hands to _request, or the exception building them raises
\* (None.upper() is an AttributeError, min(None, 1000) a TypeError)
ParamsOf(tool, a) ==
    CASE tool \in {"get_ticker_price", "get_spot_open_orders",
                   "get_futures_open_orders"} ->
            Built(SymbolOrEmpty("symbol", a.symbol))
      [] tool = "get_isolated_margin_account" ->
            Built(SymbolOrEmpty("symbols", a.symbol))
      [] tool = "get_24hr_ticker" ->
            IF a.symbol = None THEN Failed("AttributeError")
            ELSE Built(<<<<"symbol", S(upper(a.symbol[2]))>>>>)
      [] tool = "get_spot_trade_history" ->
            IF a.symbol = None THEN Failed("AttributeError")
            ELSE IF a.limit = None THEN Failed("TypeError")
            ELSE Built(<<<<"symbol", S(upper(a.symbol[2]))>>,
                         <<"limit", I(pymin(a.limit[2], LimitCap))>>>>)
      [] tool = "get_futures_income_history" ->
            IF a.limit = None THEN Failed("TypeError")
            ELSE Built(WithUpper(WithUpper(
                         <<<<"limit", I(pymin(a.limit[2], LimitCap))>>>>,
                         "symbol", a.symbol), "incomeType", a.income_type))
      [] tool = "get_deposit_address" ->
            IF a.coin = None THEN Failed("AttributeError")
            ELSE Built(WithUpper(<<<<"coin", S(upper(a.coin[2]))>>>>,
                                 "network", a.network))
      [] tool \in {"get_deposit_history", "get_withdraw_history"} ->
            IF a.limit = None THEN Failed("TypeError")
            ELSE Built(WithStatus(WithUpper(
                         <<<<"limit", I(pymin(a.limit[2], LimitCap))>>>>,
                         "coin", a.coin), a.status))
      [] OTHER -> Built(<<>>)

-----------------------------------------------------------------------------
(* get_asset_distribution: the three sections *)

Blank == <<"">>

PortfolioTitle == <<"#", "Portfolio Distribution Snapshot">>

\* the futures and the spot sub-calls in each other's place
SectionEndpointSwapped(i) ==
    CASE i = 1 -> "/fapi/v2/account"
      [] i = 2 -> "/api/v3/account"
      [] i = 3 -> "/sapi/v1/margin/account"

\* the endpoint of the i-th sub-call
SectionEndpoint(i) ==
    CASE i = 1 -> "/api/v3/account"
      [] i = 2 -> "/fapi/v2/account"
      [] i = 3 -> "/sapi/v1/margin/account"

SectionHeading(i) ==
    CASE i = 1 -> <<"##", "Spot Account">>
      [] i = 2 -> <<"##", "USDT-M Futures">>
      [] i = 3 -> <<"##", "Cross Margin">>

\* a section's try block after its request, statement by statement: a
\* <<"need", f>> reads field f of the data, an <<"emit", line>> appends a line
SectionSteps(i) ==
    CASE i = 1 -> << <<"need", "balances">>,
                     <<"emit", SectionHeading(1)>>,
                     <<"emit", <<"-", "balances">>>>,
                     <<"emit", Blank>> >>
      [] i = 2 -> << <<"need", "totalWalletBalance">>,
                     <<"emit", SectionHeading(2)>>,
                     <<"emit", <<"-", "Total Wallet Balance">>>>,
                     <<"need", "totalUnrealizedProfit">>,
                     <<"emit", <<"-", "Unrealized Profit">>>>,
                     <<"need", "positions">>,
                     <<"emit", Blank>> >>
      [] i = 3 -> << <<"emit", SectionHeading(3)>>,
                     <<"need", "totalNetAssetOfBtc">>,
                     <<"emit", <<"-", "Total Net Asset (BTC)">>>>,
                     <<"need", "marginLevel">>,
                     <<"emit", <<"-", "Margin Level">>>>,
                     <<"emit", Blank>> >>

SectionFields(i) ==
    {SectionSteps(i)[k][2] : k \in {j \in 1..Len(SectionSteps(i)) :
                                        SectionSteps(i)[j][1] = "need"}}

SectionResponses(i) ==
    {Response(s, "", "000000") : s \in Statuses}
    \cup {Response("ok", f, "000000") : f \in SectionFields(i)}

\* run the steps on data: the lines appended, and the exception that stopped it
RECURSIVE RunSteps(_, _, _)
RunSteps(steps, data, lines) ==
    IF steps = <<>> THEN [lines |-> lines, raised |-> ""]
    ELSE IF Head(steps)[1] = "need"
         THEN IF data.missing = Head(steps)[2]
              THEN [lines |-> lines, raised |-> "KeyError"]
              ELSE RunSteps(Tail(steps), data, lines)
         ELSE RunSteps(Tail(steps), data, Append(lines, Head(steps)[2]))

\* markdown += f"## ...\n\n[X] Error: {str(e)}\n\n"
SectionError(i, exc) == <<SectionHeading(i), <<ErrMark, "Error", exc>>, Blank>>

\* what section i appends to markdown for a response
Section(i, resp) ==
    LET h == HttpReceive(resp)
    IN  IF h.raised # "" THEN SectionError(i, h.raised)
        ELSE LET r == RunSteps(SectionSteps(i), h.data, <<>>)
             IN  IF r.raised # "" THEN r.lines \o SectionError(i, r.raised)
                 ELSE r.lines

-----------------------------------------------------------------------------
(* Initial state *)

ANNOUNCEMENT_URL ==
    "https://www.binance.com/bapi/composite/v1/public/market/notice/get"

\* BASE_URL as chosen from BINANCE_ENVIRONMENT
BaseUrlOf(env) ==
    IF env = "testnet" THEN "https://testnet.binance.vision"
    ELSE "https://api.binance.com"

NoCall == [tool |-> "", args |-> <<>>]

Init ==
    /\ BINANCE_API_KEY \in {"", "key"}
    /\ BINANCE_API_SECRET \in {"", "secret"}
    /\ BASE_URL \in {BaseUrlOf(env) : env \in {"production", "testnet"}}
    /\ api_client = BinanceAPI(BINANCE_API_KEY, BINANCE_API_SECRET, BASE_URL)
    /\ pc = [p \in Procs |-> "idle"]
    /\ call = [p \in Procs |-> NoCall]
    /\ stage = [p \in Procs |-> 0]
    /\ dict = [p \in Procs |-> <<>>]
    /\ sent = [p \in Procs |-> <<>>]
    /\ got = [p \in Procs |-> <<>>]
    /\ markdown = [p \in Procs |-> <<>>]
    /\ result = [p \in Procs |-> NoResult]

-----------------------------------------------------------------------------
(* Steps of an invocation *)

\* the invocation ends: it returns or raises res
Finish(p, params, reqs, resps, text, res) ==
    /\ pc' = [pc EXCEPT ![p] = "done"]
    /\ stage' = stage
    /\ dict' = [dict EXCEPT ![p] = params]
    /\ sent' = [sent EXCEPT ![p] = reqs]
    /\ got' = [got EXCEPT ![p] = resps]
    /\ markdown' = [markdown EXCEPT ![p] = text]
    /\ result' = [result EXCEPT ![p] = res]

\* markdown kept in one buffer that every invocation writes to
AwaitShared(p, n, params, reqs, resps, text) ==
    /\ pc' = [pc EXCEPT ![p] = "await"]
    /\ stage' = [stage EXCEPT ![p] = n]
    /\ dict' = [dict EXCEPT ![p] = params]
    /\ sent' = [sent EXCEPT ![p] = reqs]
    /\ got' = [got EXCEPT ![p] = resps]
    /\ markdown' = [q \in Procs |-> text]
    /\ result' = result

\* the invocation suspends on its n-th request
Await(p, n, params, reqs, resps, text) ==
    /\ pc' = [pc EXCEPT ![p] = "await"]
    /\ stage' = [stage EXCEPT ![p] = n]
    /\ dict' = [dict EXCEPT ![p] = params]
    /\ sent' = [sent EXCEPT ![p] = reqs]
    /\ got' = [got EXCEPT ![p] = resps]
    /\ markdown' = [markdown EXCEPT ![p] = text]
    /\ result' = result

\* a tool built on _request, from its call (the invocation is idle) to its
\* await or early return
ToolCall(p, tool, args, now) ==
    /\ call' = [call EXCEPT ![p] = [tool |-> tool, args |-> args]]
    /\ UNCHANGED config
    /\ IF /\ tool \in CredentialChecked
          /\ CredentialsMissing(BINANCE_API_KEY, BINANCE_API_SECRET)
       THEN Finish(p, <<>>, <<>>, <<>>, <<>>, Returned(<<NotConfigured>>))
       ELSE LET b == ParamsOf(tool, args)
            IN  IF b.raised # ""
                THEN Finish(p, <<>>, <<>>, <<>>, <<>>,
                            Returned(ErrorText(tool, b.raised)))
                ELSE LET r == RequestSend(api_client, "GET", Endpoint(tool),
                                          b.params, tool \in SignedTools, now)
                     IN  IF r.raised # ""
                         THEN Finish(p, r.params, <<>>, <<>>, <<>>,
                                     Returned(ErrorText(tool, r.raised)))
                         ELSE Await(p, 1, r.params, r.req, <<>>, <<>>)

\* the text of a tool built on _request for a response: its try block after
\* the request, and its except
ToolText(tool, resp) ==
    LET h == HttpReceive(resp)
    IN  IF h.raised # "" THEN ErrorText(tool, h.raised)
        ELSE LET r == Render(tool, h.data)
             IN  IF r.raised # "" THEN ErrorText(tool, r.raised)
                 ELSE r.text

\* the rest of a tool built on _request, once a response, one of resps, is there
ToolResumeOn(p, resps) ==
    /\ pc[p] = "await"
    /\ call[p].tool \in Tools \ {"fetch_latest_announcements",
                                 "get_asset_distribution"}
    /\ UNCHANGED <<config, call>>
    /\ \E resp \in resps :
         LET text == ToolText(call[p].tool, resp)
         IN  Finish(p, dict[p], sent[p], Append(got[p], resp), text,
                    Returned(text))

ToolResume(p) == ToolResumeOn(p, Responses(call[p].tool))

get_ticker_price(p) ==
    /\ pc[p] = "idle"
    /\ \E symbol \in SymbolArgs, now \in Timestamps :
        ToolCall(p, "get_ticker_price", [symbol |-> symbol], now)

get_24hr_ticker(p) ==
    /\ pc[p] = "idle"
    /\ \E symbol \in SymbolArgs, now \in Timestamps :
        ToolCall(p, "get_24hr_ticker", [symbol |-> symbol], now)

get_account_info(p) ==
    /\ pc[p] = "idle"
    /\ \E now \in Timestamps : ToolCall(p, "get_account_info", <<>>, now)

get_spot_open_orders(p) ==
    /\ pc[p] = "idle"
    /\ \E symbol \in SymbolArgs, now \in Timestamps :
        ToolCall(p, "get_spot_open_orders", [symbol |-> symbol], now)

get_spot_trade_history(p) ==
    /\ pc[p] = "idle"
    /\ \E symbol \in SymbolArgs, limit \in LimitArgs, now \in Timestamps :
        ToolCall(p, "get_spot_trade_history",
                 [symbol |-> symbol, limit |-> limit], now)

get_futures_account_balance(p) ==
    /\ pc[p] = "idle"
    /\ \E now \in Timestamps : ToolCall(p, "get_futures_account_balance", <<>>, now)

get_futures_open_orders(p) ==
    /\ pc[p] = "idle"
    /\ \E symbol \in SymbolArgs, now \in Timestamps :
        ToolCall(p, "get_futures_open_orders", [symbol |-> symbol], now)

get_futures_income_history(p) ==
    /\ pc[p] = "idle"
    /\ \E symbol \in SymbolArgs, income_type \in IncomeTypeArgs,
       limit \in LimitArgs, now \in Timestamps :
        ToolCall(p, "get_futures_income_history",
                 [symbol |-> symbol, income_type |-> income_type,
                  limit |-> limit], now)

get_margin_account(p) ==
    /\ pc[p] = "idle"
    /\ \E now \in Timestamps : ToolCall(p, "get_margin_account", <<>>, now)

get_isolated_margin_account(p) ==
    /\ pc[p] = "idle"
    /\ \E symbol \in SymbolArgs, now \in Timestamps :
        ToolCall(p, "get_isolated_margin_account", [symbol |-> symbol], now)

get_deposit_address(p) ==
    /\ pc[p] = "idle"
    /\ \E coin \in CoinArgs, network \in NetworkArgs, now \in Timestamps :
        ToolCall(p, "get_deposit_address",
                 [coin |-> coin, network |-> network], now)

get_deposit_history(p) ==
    /\ pc[p] = "idle"
    /\ \E coin \in CoinArgs, status \in StatusArgs, limit \in LimitArgs,
       now \in Timestamps :
        ToolCall(p, "get_deposit_history",
                 [coin |-> coin, status |-> status, limit |-> limit], now)

get_withdraw_history(p) ==
    /\ pc[p] = "idle"
    /\ \E coin \in CoinArgs, status \in StatusArgs, limit \in LimitArgs,
       now \in Timestamps :
        ToolCall(p, "get_withdraw_history",
                 [coin |-> coin, status |-> status, limit |-> limit], now)

-----------------------------------------------------------------------------
(* fetch_latest_announcements *)

\* a count clamp that also lifts a count below one to one
ClampCountFloored(count) ==
    IF count > RowsCap THEN RowsCap ELSE IF count < 1 THEN 1 ELSE count

\* count and page as clamped before the request
ClampCount(count) == IF count > RowsCap THEN RowsCap ELSE count

ClampPage(page) == IF page < MinPage THEN MinPage ELSE page

\* the clamps run before the try: comparing None with an int is a TypeError
\* that leaves the call
AnnouncementsCall(p, counts, pages) ==
    /\ pc[p] = "idle"
    /\ UNCHANGED config
    /\ \E count \in counts, page \in pages :
         /\ call' = [call EXCEPT ![p] = [tool |-> "fetch_latest_announcements",
                                         args |-> [count |-> count, page |-> page]]]
         /\ IF count = None \/ page = None
            THEN Finish(p, <<>>, <<>>, <<>>, <<>>, Raised("TypeError"))
            ELSE LET params == << <<"page", I(ClampPage(page[2]))>>,
                                  <<"rows", I(ClampCount(count[2]))>> >>
                 IN  Await(p, 1, params,
                           <<HttpRequest("GET", ANNOUNCEMENT_URL, params, <<>>)>>,
                           <<>>, <<>>)

fetch_latest_announcements(p) == AnnouncementsCall(p, CountArgs, PageArgs)

\* the try block of fetch_latest_announcements after its request
RenderAnnouncements(data) ==
    IF data.missing = "code" THEN [raised |-> "KeyError"]
    ELSE IF data.code # "000000"
         THEN [raised |-> "", text |-> <<<<ErrMark, "API error">>>>]
         ELSE Render("fetch_latest_announcements", data)

\* the text of fetch_latest_announcements for a response
AnnouncementsText(resp) ==
    LET tool == "fetch_latest_announcements"
        h    == HttpReceive(resp)
    IN  IF h.raised # "" THEN ErrorText(tool, h.raised)
        ELSE LET r == RenderAnnouncements(h.data)
             IN  IF r.raised # "" THEN ErrorText(tool, r.raised)
                 ELSE r.text

AnnouncementsResumeOn(p, resps) ==
    /\ pc[p] = "await"
    /\ call[p].tool = "fetch_latest_announcements"
    /\ UNCHANGED <<config, call>>
    /\ \E resp \in resps :
         LET text == AnnouncementsText(resp)
         IN  Finish(p, dict[p], sent[p], Append(got[p], resp), text,
                    Returned(text))

AnnouncementsResume(p) ==
    AnnouncementsResumeOn(p, Responses("fetch_latest_announcements"))

-----------------------------------------------------------------------------
(* get_asset_distribution *)

NumSections == 3

\* get_asset_distribution up to its first await, the clock read from nows
AssetDistributionCall(p, nows) ==
    /\ pc[p] = "idle"
    /\ call' = [call EXCEPT ![p] = [tool |-> "get_asset_distribution",
                                    args |-> <<>>]]
    /\ UNCHANGED config
    /\ IF /\ "get_asset_distribution" \in CredentialChecked
          /\ CredentialsMissing(BINANCE_API_KEY, BINANCE_API_SECRET)
       THEN Finish(p, <<>>, <<>>, <<>>, <<>>, Returned(<<NotConfigured>>))
       ELSE \E now \in nows :
              LET r == RequestSend(api_client, "GET", SectionEndpoint(1),
                                   <<>>, TRUE, now)
              IN  Await(p, 1, r.params, r.req, <<>>, <<PortfolioTitle>>)

get_asset_distribution(p) == AssetDistributionCall(p, Timestamps)

\* the response of section stage[p] arrives: the section is appended, and the
\* next section's request is sent or the text returned
AssetDistributionResumeOn(p, resps, nows) ==
    /\ pc[p] = "await"
    /\ call[p].tool = "get_asset_distribution"
    /\ UNCHANGED <<config, call>>
    /\ \E resp \in resps :
         LET i    == stage[p]
             text == markdown[p] \o Section(i, resp)
         IN  IF i < NumSections
             THEN \E now \in nows :
                    LET r == RequestSend(api_client, "GET", SectionEndpoint(i + 1),
                                         <<>>, TRUE, now)
                    IN  Await(p, i + 1, r.params, sent[p] \o r.req,
                              Append(got[p], resp), text)
             ELSE Finish(p, dict[p], sent[p], Append(got[p], resp), text,
                         Returned(text))

AssetDistributionResume(p) ==
    AssetDistributionResumeOn(p, SectionResponses(stage[p]), Timestamps)

-----------------------------------------------------------------------------
(* BinanceAPI._request called on its own *)

Methods == {"GET", "get", "POST", "Post", "PUT", "delete"}

\* params mappings a caller may pass, some holding the keys signing sets
DirectParams ==
    { <<>>,
      << <<"symbol", S("BTCUSDT")>> >>,
      << <<"symbol", S("BTCUSDT")>>, <<"limit", I(10)>> >>,
      << <<"timestamp", I(0)>>, <<"symbol", S("BTCUSDT")>> >>,
      << <<"signature", S("old")>>, <<"symbol", S("BTCUSDT")>> >>,
      << <<"symbol", S("BTCUSDT")>>, <<"signature", S("old")>>,
         <<"timestamp", I(0)>> >> }

Request(p) ==
    /\ pc[p] = "idle"
    /\ UNCHANGED config
    /\ \E method \in Methods, params \in DirectParams, signed \in BOOLEAN,
          now \in Timestamps :
         LET r == RequestSend(api_client, method, "/api/v3/order", params,
                              signed, now)
         IN  /\ call' = [call EXCEPT ![p] =
                           [tool |-> "_request",
                            args |-> [method |-> method, params |-> params,
                                      signed |-> signed]]]
             /\ IF r.raised # ""
                THEN Finish(p, r.params, <<>>, <<>>, <<>>, Raised(r.raised))
                ELSE Await(p, 1, r.params, r.req, <<>>, <<>>)

RequestResume(p) ==
    /\ pc[p] = "await"
    /\ call[p].tool = "_request"
    /\ UNCHANGED <<config, call>>
    /\ \E s \in Statuses :
         LET resp == Response(s, "", "000000")
             h    == HttpReceive(resp)
         IN  Finish(p, dict[p], sent[p], Append(got[p], resp), <<>>,
                    IF h.raised # "" THEN Raised(h.raised)
                    ELSE [kind |-> "data", value |-> h.data])

-----------------------------------------------------------------------------
(* The host *)

\* the caller takes the result; the invocation's locals are gone
Return(p) ==
    /\ pc[p] = "done"
    /\ pc' = [pc EXCEPT ![p] = "idle"]
    /\ call' = [call EXCEPT ![p] = NoCall]
    /\ stage' = [stage EXCEPT ![p] = 0]
    /\ dict' = [dict EXCEPT ![p] = <<>>]
    /\ sent' = [sent EXCEPT ![p] = <<>>]
    /\ got' = [got EXCEPT ![p] = <<>>]
    /\ markdown' = [markdown EXCEPT ![p] = <<>>]
    /\ result' = [result EXCEPT ![p] = NoResult]
    /\ UNCHANGED config

Next ==
    \E p \in SeqProcs :
        \/ fetch_latest_announcements(p)
        \/ AnnouncementsResume(p)
        \/ get_ticker_price(p)
        \/ get_24hr_ticker(p)
        \/ get_account_info(p)
        \/ get_spot_open_orders(p)
        \/ get_spot_trade_history(p)
        \/ get_futures_account_balance(p)
        \/ get_futures_open_orders(p)
        \/ get_futures_income_history(p)
        \/ get_margin_account(p)
        \/ get_isolated_margin_account(p)
        \/ get_asset_distribution(p)
        \/ AssetDistributionResume(p)
        \/ get_deposit_address(p)
        \/ get_deposit_history(p)
        \/ get_withdraw_history(p)
        \/ ToolResume(p)
        \/ Request(p)
        \/ RequestResume(p)
        \/ Return(p)

Spec == Init /\ [][Next]_vars

-----------------------------------------------------------------------------
(* Concurrent invocations: the event loop runs one invocation up to its
   next await, then any other *)

\* an invocation's timestamp plays no part in what another one does
ConcTimestamps == {1}

ConcStatuses == {"ok", "timeout"}

ConcResponses(tool) ==
    {r \in Responses(tool) : r.status \in ConcStatuses /\ Len(r.items) <= 1}

ConcSectionResponses(i) ==
    {r \in SectionResponses(i) : r.status \in ConcStatuses}

ConcAnnouncements(p) ==
    AnnouncementsCall(p, {None, I(RowsCap)}, {I(MinPage)})

ConcAnnouncementsResume(p) ==
    AnnouncementsResumeOn(p, ConcResponses("fetch_latest_announcements"))

ConcAccountInfo(p) ==
    /\ pc[p] = "idle"
    /\ \E now \in ConcTimestamps : ToolCall(p, "get_account_info", <<>>, now)

ConcToolResume(p) == ToolResumeOn(p, ConcResponses(call[p].tool))

ConcAssetDistribution(p) == AssetDistributionCall(p, ConcTimestamps)

ConcAssetDistributionResume(p) ==
    AssetDistributionResumeOn(p, ConcSectionResponses(stage[p]), ConcTimestamps)

NextConc ==
    \E p \in Procs :
        \/ ConcAnnouncements(p)
        \/ ConcAnnouncementsResume(p)
        \/ ConcAccountInfo(p)
        \/ ConcToolResume(p)
        \/ ConcAssetDistribution(p)
        \/ ConcAssetDistributionResume(p)
        \/ Return(p)

SpecConc == Init /\ [][NextConc]_vars

-----------------------------------------------------------------------------
(* Vocabulary of the properties *)

\* the API key or the API secret is unset
ConfigMissing == BINANCE_API_KEY = "" \/ BINANCE_API_SECRET = ""

\* invocation p is a call of tool t that has started
Calls(p, t) == pc[p] # "idle" /\ call[p].tool = t

IsToolCall(p) == pc[p] # "idle" /\ call[p].tool \in Tools

Lines(text) == {text[k] : k \in 1..Len(text)}

\* the i-th response invocation p received ended its request in a failure:
\* a transport failure, a non-2xx status, no JSON, or a field the code
\* subscripts missing
ResponseFailed(p, i) ==
    \/ got[p][i].status # "ok"
    \/ got[p][i].missing \in
          (IF call[p].tool = "get_asset_distribution" THEN SectionFields(i)
           ELSE RequiredFields(call[p].tool))

FailedResponses(p) == {i \in 1..Len(got[p]) : ResponseFailed(p, i)}

\* the twelve account tools, by name
PrivateTools ==
    {"get_account_info", "get_spot_open_orders", "get_spot_trade_history",
     "get_futures_account_balance", "get_futures_open_orders",
     "get_futures_income_history", "get_margin_account",
     "get_isolated_margin_account", "get_asset_distribution",
     "get_deposit_address", "get_deposit_history", "get_withdraw_history"}

\* invocation p ended, returned the fixed message and sent nothing
ReturnedNotConfigured(p) ==
    /\ pc[p] = "done"
    /\ result[p] = Returned(<<NotConfigured>>)
    /\ sent[p] = <<>>

-----------------------------------------------------------------------------
(* C1 *)

\* C1 as stated: every tool, the three public ones included, called while the
\* key or the secret is empty returns the "API keys not configured" message
\* and attempts no network request.
C1_EveryToolGuarded ==
    \A p \in Procs :
        (IsToolCall(p) /\ ConfigMissing) => ReturnedNotConfigured(p)

\* C1 amended: each of the twelve tools that sign their request, called while
\* the key or the secret is empty, returns the "API keys not configured"
\* message and attempts no network request; the three public tools make no
\* credential check.
C1_PrivateToolsGuarded ==
    \A p \in Procs :
        (IsToolCall(p) /\ call[p].tool \in PrivateTools /\ ConfigMissing)
            => ReturnedNotConfigured(p)

\* a private tool was called with the key set and the secret empty
C1_Witness ==
    \E p \in Procs :
        /\ Calls(p, "get_account_info")
        /\ BINANCE_API_KEY # "" /\ BINANCE_API_SECRET = ""
        /\ ReturnedNotConfigured(p)

-----------------------------------------------------------------------------
(* C2 *)

IsSignedRequest(req) == HasKey(req.params, "signature")

\* C2: a tool never sends a signed request while the key or the secret is
\* empty: a tool that passes signed=True returns the configuration error with
\* no request made, and every signed request a tool sent was sent with both
\* credentials set.
C2_NoSignedRequestWithoutCredentials ==
    \A p \in Procs :
        IsToolCall(p) =>
            /\ \A i \in 1..Len(sent[p]) :
                  IsSignedRequest(sent[p][i]) =>
                      /\ ~ConfigMissing
                      /\ api_client.api_key # "" /\ api_client.api_secret # ""
            /\ (call[p].tool \in SignedTools /\ ConfigMissing)
                  => (sent[p] = <<>> /\ result[p] = Returned(<<NotConfigured>>))

\* get_deposit_history was called with the secret set and the key empty and
\* ended without a request
C2_Witness ==
    \E p \in Procs :
        /\ Calls(p, "get_deposit_history")
        /\ BINANCE_API_KEY = "" /\ BINANCE_API_SECRET # ""
        /\ pc[p] = "done" /\ sent[p] = <<>>

-----------------------------------------------------------------------------
(* C3 *)

\* C3 as stated: whatever the input (a None count, page, symbol or coin
\* included) and whatever the request's failure, no exception leaves a tool:
\* a call that met an exception returns one line that starts with the error
\* marker.
C3_NoExceptionLeavesATool ==
    \A p \in Procs :
        (IsToolCall(p) /\ pc[p] = "done") => result[p].kind = "return"

-----------------------------------------------------------------------------
(* C4 *)

\* the lines a section shows for its data
DataLines(j) ==
    {SectionSteps(j)[k][2] : k \in {n \in 1..Len(SectionSteps(j)) :
                                       SectionSteps(j)[n][1] = "emit"}}
    \ {SectionHeading(j), Blank}

\* section j of the text is there with its data
Populated(text, j) ==
    SectionHeading(j) \in Lines(text) /\ DataLines(j) \subseteq Lines(text)

\* section j of the text holds its heading followed by an error line
ReportedInline(text, j) ==
    \E k \in 1..(Len(text) - 1) :
        text[k] = SectionHeading(j) /\ text[k + 1][1] = ErrMark

SubCallPaths ==
    <<"/api/v3/account", "/fapi/v2/account", "/sapi/v1/margin/account">>

\* C4: with credentials configured, get_asset_distribution attempts its three
\* sub-calls once each, in the order spot, futures, cross margin, whatever
\* the earlier outcomes; a failed sub-call is reported in its own section,
\* and when exactly one fails the other two sections hold their data.
C4_ThreeSubCallsAlwaysAttempted ==
    \A p \in Procs :
        (Calls(p, "get_asset_distribution") /\ ~ConfigMissing) =>
            /\ Len(sent[p]) <= 3
            /\ \A i \in 1..Len(sent[p]) :
                  /\ sent[p][i].url = <<BASE_URL, SubCallPaths[i]>>
                  /\ sent[p][i].method = "GET"
            /\ pc[p] = "await" => Len(sent[p]) = Len(got[p]) + 1
            /\ pc[p] = "done" =>
                  /\ Len(sent[p]) = 3 /\ Len(got[p]) = 3
                  /\ result[p].kind = "return"
                  /\ \A j \in 1..3 :
                        IF ResponseFailed(p, j)
                        THEN ReportedInline(result[p].value, j)
                        ELSE Populated(result[p].value, j)

\* get_asset_distribution ended with its futures sub-call alone failed
C4_Witness ==
    \E p \in Procs :
        /\ Calls(p, "get_asset_distribution") /\ pc[p] = "done"
        /\ FailedResponses(p) = {2}
        /\ Len(sent[p]) = 3
        /\ Populated(result[p].value, 1) /\ Populated(result[p].value, 3)

-----------------------------------------------------------------------------
(* C5 *)

\* invocation p met a configuration error or a failed request
InvocationFailed(p) ==
    \/ call[p].tool \in PrivateTools /\ ConfigMissing
    \/ FailedResponses(p) # {}

-----------------------------------------------------------------------------
(* C6 *)

SigningKeys == {"timestamp", "signature"}

\* invocation p is a call of _request itself that has run its signing step
IsRequestCall(p) == pc[p] # "idle" /\ call[p].tool = "_request"

\* C6: after the signing step of _request (signed=True), whatever the mapping
\* passed, the mapping holds exactly one 'timestamp' and exactly one
\* 'signature' entry and every other parameter it held before, with the same
\* value, and nothing else; with signed=False the mapping is unchanged.
C6_SigningAddsTimestampAndSignature ==
    \A p \in Procs :
        IsRequestCall(p) =>
            LET before == call[p].args.params
                after  == dict[p]
            IN  IF call[p].args.signed
                THEN /\ Count(after, "timestamp") = 1
                     /\ Count(after, "signature") = 1
                     /\ Keys(after) = Keys(before) \cup SigningKeys
                     /\ \A i \in 1..Len(before) :
                           before[i][1] \notin SigningKeys =>
                               /\ Count(after, before[i][1]) = 1
                               /\ Get(after, before[i][1]) = before[i][2]
                ELSE after = before

\* a signed call whose mapping already held a 'timestamp' and a 'signature'
C6_Witness ==
    \E p \in Procs :
        /\ IsRequestCall(p) /\ call[p].args.signed
        /\ SigningKeys \subseteq Keys(call[p].args.params)
        /\ Len(sent[p]) = 1

-----------------------------------------------------------------------------
(* C7 *)

\* the mapping the caller of _request passed in invocation p
CallerParams(p) ==
    CASE call[p].tool = "_request" -> call[p].args.params
      [] call[p].tool = "get_asset_distribution" -> <<>>
      [] OTHER -> LET b == ParamsOf(call[p].tool, call[p].args)
                  IN  IF b.raised # "" THEN <<>> ELSE b.params

\* invocation p called _request with signed=True
SignedCall(p) ==
    \/ IsRequestCall(p) /\ call[p].args.signed
    \/ IsToolCall(p) /\ call[p].tool \in SignedTools

\* request req is a mapping that ends with the digest, keyed by the secret,
\* of the query string of all that precedes it, which holds the timestamp
\* and no 'signature'
SignedInOrder(req) ==
    LET ps       == req.params
        n        == Len(ps)
        unsigned == SubSeq(ps, 1, n - 1)
    IN  /\ n >= 2
        /\ ps[n][1] = "signature"
        /\ ps[n][2] = <<"hmac_sha256", BINANCE_API_SECRET,
                        [i \in 1..(n - 1) |-> <<ps[i][1], str(ps[i][2])>>]>>
        /\ Count(unsigned, "timestamp") = 1
        /\ ~HasKey(unsigned, "signature")

\* the caller's parameters are in the request, in the caller's order
KeepsCallerOrder(params, req) ==
    LET kept == SelectSeq(req.params, LAMBDA kv : kv[1] \notin SigningKeys)
    IN  kept = SelectSeq(params, LAMBDA kv : kv[1] \notin SigningKeys)

-----------------------------------------------------------------------------
(* C8 *)

\* C8: _request called with a method that is, whatever its case, neither GET
\* nor POST raises ValueError and sends nothing, signed or not; a request is
\* sent only for GET or POST, and with that method.
C8_UnsupportedMethodSendsNothing ==
    \A p \in Procs :
        IsRequestCall(p) =>
            LET method == call[p].args.method
                accepted == {"GET", "get", "POST", "Post"}
            IN  /\ method \notin accepted =>
                      /\ pc[p] = "done"
                      /\ result[p] = Raised("ValueError")
                      /\ sent[p] = <<>> /\ got[p] = <<>>
                /\ sent[p] # <<>> =>
                      /\ method \in accepted
                      /\ sent[p][1].method \in {"GET", "POST"}
                      /\ (sent[p][1].method = "GET") = (method \in {"GET", "get"})

\* a signed PUT ended in ValueError
C8_Witness ==
    \E p \in Procs :
        /\ IsRequestCall(p) /\ call[p].args.method = "PUT"
        /\ call[p].args.signed
        /\ result[p] = Raised("ValueError")

-----------------------------------------------------------------------------
(* C9 *)

\* invocation p sends its requests through _request
UsesRequest(p) ==
    pc[p] # "idle" /\ call[p].tool # "fetch_latest_announcements"

\* C9: a request sent by _request carries the X-MBX-APIKEY header with the
\* configured key when the key is not empty, and no X-MBX-APIKEY header when
\* it is empty, signed or not.
C9_ApiKeyHeader ==
    \A p \in Procs :
        UsesRequest(p) =>
            \A i \in 1..Len(sent[p]) :
                IF BINANCE_API_KEY # ""
                THEN /\ Count(sent[p][i].headers, "X-MBX-APIKEY") = 1
                     /\ Get(sent[p][i].headers, "X-MBX-APIKEY") = BINANCE_API_KEY
                ELSE ~HasKey(sent[p][i].headers, "X-MBX-APIKEY")

\* a signed request was sent with no key configured
C9_Witness ==
    \E p \in Procs :
        /\ IsRequestCall(p) /\ call[p].args.signed
        /\ BINANCE_API_KEY = ""
        /\ Len(sent[p]) = 1

-----------------------------------------------------------------------------
(* C10 *)

\* the most requests a call of the tool may send
MaxRequests(tool) == IF tool = "get_asset_distribution" THEN 3 ELSE 1

\* C10: nothing is retried: a call of _request sends at most one request, a
\* tool invocation at most one, get_asset_distribution at most three, no two
\* requests of an invocation go to the same endpoint, and a request is sent
\* only once the one before it has been answered.
C10_NoRetry ==
    \A p \in Procs :
        pc[p] # "idle" =>
            /\ Len(sent[p]) <= MaxRequests(call[p].tool)
            /\ \A i, j \in 1..Len(sent[p]) :
                  i # j => sent[p][i].url # sent[p][j].url
            /\ Len(sent[p]) <= Len(got[p]) + 1
            /\ pc[p] = "done" => Len(got[p]) = Len(sent[p])

\* a tool's single request timed out and the call ended with that one request
C10_Witness ==
    \E p \in Procs :
        /\ Calls(p, "get_ticker_price") /\ pc[p] = "done"
        /\ Len(got[p]) = 1 /\ got[p][1].status = "timeout"
        /\ Len(sent[p]) = 1

-----------------------------------------------------------------------------
(* C11 *)

LimitTools ==
    {"get_spot_trade_history", "get_deposit_history", "get_withdraw_history",
     "get_futures_income_history"}

\* invocation p is a call of a tool with a limit, called with an int limit,
\* that has sent its request
SentWithLimit(p) ==
    /\ pc[p] # "idle" /\ call[p].tool \in LimitTools
    /\ call[p].args.limit # None
    /\ Len(sent[p]) = 1

\* C11: in the four tools with a limit argument the 'limit' parameter of the
\* request sent is min(limit, 1000): never above 1000, and an argument of
\* 1000 or less, zero and negative values included, goes out unchanged.
C11_LimitClampedToThousand ==
    \A p \in Procs :
        SentWithLimit(p) =>
            LET limit == call[p].args.limit[2]
                ps    == sent[p][1].params
            IN  /\ Count(ps, "limit") = 1
                /\ Get(ps, "limit")[1] = "int"
                /\ Get(ps, "limit")[2] <= 1000
                /\ Get(ps, "limit")[2] = (IF limit > 1000 THEN 1000 ELSE limit)

\* get_withdraw_history sent 1000 for a limit of 1001, and get_spot_trade_history
\* sent -1 for a limit of -1
C11_Witness ==
    \E p \in Procs :
        /\ SentWithLimit(p)
        /\ \/ /\ call[p].tool = "get_withdraw_history"
              /\ call[p].args.limit = I(1001)
              /\ Get(sent[p][1].params, "limit") = I(1000)
           \/ /\ call[p].tool = "get_spot_trade_history"
              /\ call[p].args.limit = I(-1)
              /\ Get(sent[p][1].params, "limit") = I(-1)

-----------------------------------------------------------------------------
(* C12 *)

\* invocation p is a call of fetch_latest_announcements with int arguments
AnnouncementsSent(p) ==
    /\ Calls(p, "fetch_latest_announcements")
    /\ call[p].args.count # None /\ call[p].args.page # None

\* C12: the request of fetch_latest_announcements has rows = min(count, 20)
\* and page = max(page, 1), each clamp on its own: rows has no lower bound
\* and page no upper bound.
C12_RowsAndPageClamped ==
    \A p \in Procs :
        AnnouncementsSent(p) =>
            LET count == call[p].args.count[2]
                page  == call[p].args.page[2]
                ps    == sent[p][1].params
            IN  /\ Len(sent[p]) = 1
                /\ Keys(ps) = {"page", "rows"} /\ Len(ps) = 2
                /\ Get(ps, "rows") = I(IF count > 20 THEN 20 ELSE count)
                /\ Get(ps, "page") = I(IF page < 1 THEN 1 ELSE page)
                /\ Get(ps, "rows")[2] <= 20 /\ Get(ps, "page")[2] >= 1

\* a count above the cap with a page below one, and a count below one with a
\* page above one, were sent clamped and unchanged
C12_Witness ==
    \E p \in Procs :
        /\ AnnouncementsSent(p)
        /\ \/ /\ call[p].args.count = I(21) /\ call[p].args.page = I(0)
              /\ sent[p][1].params = << <<"page", I(1)>>, <<"rows", I(20)>> >>
           \/ /\ call[p].args.count = I(-1) /\ call[p].args.page = I(2)
              /\ sent[p][1].params = << <<"page", I(2)>>, <<"rows", I(-1)>> >>

-----------------------------------------------------------------------------
(* C15 *)

\* invocation p is a call of tool t that ended on well-formed data
Rendered(p, t) ==
    /\ Calls(p, t) /\ pc[p] = "done"
    /\ Len(got[p]) = 1 /\ ~ResponseFailed(p, 1)

\* the lines of a text that start with mark
LinesWith(text, mark) == SelectSeq(text, LAMBDA line : line[1] = mark)

TableHeads == {"| Symbol | Price |", "|--------|-------|"}

\* C15: get_ticker_price on a list of N symbols renders a table of exactly
\* min(N, 20) rows, the first min(N, 20) items in response order, with the
\* "Showing 20 of N symbols" footer exactly when N > 20; on a single object
\* it renders exactly one price line and no table.
C15_TickerTable ==
    \A p \in Procs :
        Rendered(p, "get_ticker_price") =>
            LET text == result[p].value
                data == got[p][1].items
                N    == Len(data)
                rows == LinesWith(text, "|")
            IN  IF got[p][1].shape = "list"
                THEN /\ Len(rows) = (IF N < 20 THEN N ELSE 20)
                     /\ \A k \in 1..Len(rows) : rows[k] = <<"|", data[k]>>
                     /\ LinesWith(text, "_") =
                           (IF N > 20 THEN <<<<"_", "Showing 20 of", N>>>>
                            ELSE <<>>)
                     /\ LinesWith(text, "**") = <<>>
                ELSE /\ Len(LinesWith(text, "**")) = 1
                     /\ rows = <<>>
                     /\ \A k \in 1..Len(text) : text[k][1] \notin TableHeads

\* a list of 21 symbols was rendered
C15_Witness ==
    \E p \in Procs :
        /\ Rendered(p, "get_ticker_price")
        /\ got[p][1].shape = "list" /\ Len(got[p][1].items) = 21
        /\ Len(LinesWith(result[p].value, "|")) = 20

-----------------------------------------------------------------------------
(* C17 *)

\* the sum of the incomes of the records of an asset
RECURSIVE SumFor(_, _)
SumFor(incomes, asset) ==
    IF incomes = <<>> THEN 0
    ELSE (IF Head(incomes)[1] = asset THEN Head(incomes)[2] ELSE 0)
         + SumFor(Tail(incomes), asset)

\* where an asset first occurs in the records
FirstOccurrence(incomes, asset) ==
    CHOOSE k \in 1..Len(incomes) :
        /\ incomes[k][1] = asset
        /\ \A j \in 1..(k - 1) : incomes[j][1] # asset

\* C17: for a non-empty list of income records the "Total Income by Asset"
\* section of get_futures_income_history has one line per distinct asset of
\* the records, in order of first occurrence, showing the sum of the incomes
\* of the records of that asset, and the table has one row per record, in
\* response order.
C17_IncomeTotals ==
    \A p \in Procs :
        (Rendered(p, "get_futures_income_history")
            /\ got[p][1].shape = "list" /\ got[p][1].items # <<>>) =>
            LET text    == result[p].value
                incomes == got[p][1].items
                assets  == {incomes[k][1] : k \in 1..Len(incomes)}
                rows    == LinesWith(text, "|")
                totals  == LinesWith(text, "-")
            IN  /\ rows = [k \in 1..Len(incomes) |-> <<"|", incomes[k]>>]
                /\ Len(totals) = Cardinality(assets)
                /\ {totals[k][2] : k \in 1..Len(totals)} = assets
                /\ \A i, j \in 1..Len(totals) :
                      i < j => FirstOccurrence(incomes, totals[i][2])
                                 < FirstOccurrence(incomes, totals[j][2])
                /\ \A k \in 1..Len(totals) :
                      totals[k][3] = SumFor(incomes, totals[k][2])
                /\ \E h \in 1..Len(text) :
                      /\ text[h] = <<"##", "Total Income by Asset">>
                      /\ SubSeq(text, h + 1, Len(text)) = totals

\* three records of two assets, the first asset occurring twice, were rendered
C17_Witness ==
    \E p \in Procs :
        /\ Rendered(p, "get_futures_income_history")
        /\ got[p][1].items = << <<"BNB", 2>>, <<"USDT", -1>>, <<"BNB", 2>> >>
        /\ LinesWith(result[p].value, "-") =
              << <<"-", "BNB", 4>>, <<"-", "USDT", -1>> >>

-----------------------------------------------------------------------------
(* C16 *)

\* the lines of section j of a text in which each heading occurs once: what
\* follows its heading up to the next heading, blank lines left out
SectionBody(text, j) ==
    LET h    == CHOOSE k \in 1..Len(text) : text[k] = SectionHeading(j)
        next == IF j = NumSections THEN Len(text) + 1
                ELSE CHOOSE k \in 1..Len(text) : text[k] = SectionHeading(j + 1)
    IN  SelectSeq(SubSeq(text, h + 1, next - 1), LAMBDA line : line # Blank)

\* C16 as stated: in the text get_asset_distribution returns with credentials
\* configured, the three section headings occur once each, in the order spot,
\* futures, margin, whichever sub-calls failed and wherever they failed (the
\* request, or a field missing from the response), and a failed section holds
\* its heading and one error line only, no data of that section.
C16_HeadingsOnceFailedSectionBare ==
    \A p \in Procs :
        (Calls(p, "get_asset_distribution") /\ pc[p] = "done"
            /\ Len(got[p]) = NumSections) =>
            LET text == result[p].value
            IN  /\ LinesWith(text, "##") =
                      [j \in 1..NumSections |-> SectionHeading(j)]
                /\ \A j \in FailedResponses(p) :
                      /\ Len(SectionBody(text, j)) = 1
                      /\ SectionBody(text, j)[1][1] = ErrMark

-----------------------------------------------------------------------------
(* C13 *)

\* everything that belongs to invocation p
Locals(p) ==
    <<pc[p], call[p], stage[p], dict[p], sent[p], got[p], markdown[p],
      result[p]>>

\* what the call c gives when it runs alone and receives resps: computed from
\* the configuration, the call and its own responses, nothing else
AloneResult(c, resps) ==
    IF c.tool \in CredentialChecked /\ ConfigMissing
    THEN Returned(<<NotConfigured>>)
    ELSE CASE c.tool = "fetch_latest_announcements" ->
                IF c.args.count = None \/ c.args.page = None
                THEN Raised("TypeError")
                ELSE Returned(AnnouncementsText(resps[1]))
           [] c.tool = "get_asset_distribution" ->
                Returned(<<PortfolioTitle>> \o Section(1, resps[1])
                            \o Section(2, resps[2]) \o Section(3, resps[3]))
           [] OTHER ->
                LET b == ParamsOf(c.tool, c.args)
                IN  IF b.raised # ""
                    THEN Returned(ErrorText(c.tool, b.raised))
                    ELSE Returned(ToolText(c.tool, resps[1]))

\* C13: under any interleaving of concurrent invocations no step changes the
\* configuration (API key, API secret, base URL, the fields of api_client),
\* every step changes the parameter mapping, requests, responses and text of
\* at most one invocation, and every invocation ends with the result it
\* gives when it runs alone on the same responses.
C13_NoInterference ==
    /\ [][/\ config' = config
          /\ api_client' = BinanceAPI(BINANCE_API_KEY, BINANCE_API_SECRET,
                                      BASE_URL)
          /\ \E p \in Procs : \A q \in Procs \ {p} : Locals(q)' = Locals(q)]_vars
    /\ [](\A p \in Procs :
            (IsToolCall(p) /\ pc[p] = "done")
                => result[p] = AloneResult(call[p], got[p]))

\* one get_asset_distribution ended on three good responses while another,
\* begun meanwhile, is awaiting its second and has a first that timed out
C13_Witness ==
    /\ Calls("p1", "get_asset_distribution") /\ pc["p1"] = "done"
    /\ Len(got["p1"]) = NumSections /\ FailedResponses("p1") = {}
    /\ Calls("p2", "get_asset_distribution") /\ pc["p2"] = "await"
    /\ stage["p2"] = 2 /\ got["p2"][1].status = "timeout"

-----------------------------------------------------------------------------
(* C14 *)

\* C14 as stated: the step that ends a tool invocation delivers one string,
\* an error text if one of its requests failed or timed out, and leaves every
\* other invocation, in flight or idle, as it was, able to go on.
C14_EndsWithOneStringOnlyItself ==
    [][\A p \in Procs :
          (pc[p] # "done" /\ pc'[p] = "done" /\ call'[p].tool \in Tools) =>
              /\ result'[p].kind = "return"
              /\ (\E i \in 1..Len(got'[p]) : got'[p][i].status # "ok")
                    => \E k \in 1..Len(result'[p].value) :
                          result'[p].value[k][1] = ErrMark
              /\ \A q \in Procs \ {p} : Locals(q)' = Locals(q)]_vars

=============================================================================
